---- MODULE Spec2Model ----
(***************************************************************************)
(* Line-coding codec engine of line-lumi: the eight encoders               *)
(* (src/utils/encoders.ts), their decoders, the AWGN noise injection and   *)
(* the error comparator, exercised as the pipeline                         *)
(* encode -> addAwgn -> decode -> findErrors.                              *)
(*                                                                         *)
(* Conventions.  A bit string is a sequence of the characters "0" and "1". *)
(* A sample sequence is a sequence of integers: levels are -amplitude, 0   *)
(* and +amplitude with an integer amplitude, so the half-amplitude         *)
(* threshold |v| > |amplitude| * 0.5 is computed as 2*|v| > |amplitude|.   *)
(* The code indexes from 0; loop counters below keep the code's 0-based    *)
(* values and sequences are read at index + 1.                             *)
(***************************************************************************)
EXTENDS Integers, Sequences, FiniteSets, TLC

\* ------------------------------------------------------------------ bounds
MaxLen == 8
MaxSubs == 2
MaxPad == 1
MaxSpb == 6
MaxAmp == 2
MaxNoise == 1
MaxNoisyLen == 2
MaxCmpLen == 4
MaxEdgeLen == 3
MaxEdgeSpb == 2
MaxNegSpb == 1
MaxLoopLen == 4
MaxLoopSpb == 3
MaxLoopBits == 6
MaxDispatchLen == 4
MaxTypedLen == 1
MaxSliderSteps == 0
MaxRandomExtra == 0

\* ----------------------------------------------------------------- helpers
Abs(x) == IF x < 0 THEN 0 - x ELSE x

\* Math.sign on a number
Sign(x) == IF x > 0 THEN 1 ELSE IF x < 0 THEN 0 - 1 ELSE 0

\* Math.sign(undefined): NaN, which is !== to every value, itself included
NaN == 7

\* a !== b on results of Math.sign
SignDiffers(a, b) == a = NaN \/ b = NaN \/ a # b

Min(a, b) == IF a <= b THEN a ELSE b

\* Array(n).fill(v)
Fill(n, v) == [k \in 1..n |-> v]

\* Math.floor(a / b) for a >= 0, b > 0
Floor(a, b) == a \div b

\* bits.substring(i, i + n) for 0 <= i, i + n <= length
Substring(bits, i, n) == SubSeq(bits, i + 1, i + n)

Zeros(n) == [k \in 1..n |-> "0"]

SchemeId == {"NRZ", "RZ", "NRZI", "Manchester", "DiffManchester", "AMI", "B8ZS", "HDB3"}

\* ---------------------------------------------------------------- encoders
RECURSIVE encodeNRZLoop(_, _, _, _, _)
encodeNRZLoop(bits, samplesPerBit, amplitude, k, samples) ==
  IF k >= Len(bits) THEN samples
  ELSE LET value == IF bits[k + 1] = "1" THEN amplitude ELSE 0 - amplitude
       IN encodeNRZLoop(bits, samplesPerBit, amplitude, k + 1,
                        samples \o Fill(samplesPerBit, value))

encodeNRZ(bits, samplesPerBit, amplitude) ==
  encodeNRZLoop(bits, samplesPerBit, amplitude, 0, <<>>)

\* encodeRZ filling both halves with halfSamples samples
RECURSIVE encodeRZLoopEqualHalves(_, _, _, _, _)
encodeRZLoopEqualHalves(bits, samplesPerBit, amplitude, k, samples) ==
  IF k >= Len(bits) THEN samples
  ELSE LET halfSamples == Floor(samplesPerBit, 2)
           value == IF bits[k + 1] = "1" THEN amplitude ELSE 0 - amplitude
       IN encodeRZLoopEqualHalves(bits, samplesPerBit, amplitude, k + 1,
                                  samples \o Fill(halfSamples, value)
                                          \o Fill(halfSamples, 0))

RECURSIVE encodeRZLoop(_, _, _, _, _)
encodeRZLoop(bits, samplesPerBit, amplitude, k, samples) ==
  IF k >= Len(bits) THEN samples
  ELSE LET halfSamples == Floor(samplesPerBit, 2)
           value == IF bits[k + 1] = "1" THEN amplitude ELSE 0 - amplitude
       IN encodeRZLoop(bits, samplesPerBit, amplitude, k + 1,
                       samples \o Fill(halfSamples, value)
                               \o Fill(samplesPerBit - halfSamples, 0))

encodeRZ(bits, samplesPerBit, amplitude) ==
  encodeRZLoop(bits, samplesPerBit, amplitude, 0, <<>>)

RECURSIVE encodeNRZILoop(_, _, _, _, _, _)
encodeNRZILoop(bits, samplesPerBit, amplitude, k, currentLevel, samples) ==
  IF k >= Len(bits) THEN samples
  ELSE LET level == IF bits[k + 1] = "1" THEN 0 - currentLevel ELSE currentLevel
       IN encodeNRZILoop(bits, samplesPerBit, amplitude, k + 1, level,
                         samples \o Fill(samplesPerBit, level))

encodeNRZI(bits, samplesPerBit, amplitude) ==
  encodeNRZILoop(bits, samplesPerBit, amplitude, 0, amplitude, <<>>)

RECURSIVE encodeManchesterLoop(_, _, _, _, _)
encodeManchesterLoop(bits, samplesPerBit, amplitude, k, samples) ==
  IF k >= Len(bits) THEN samples
  ELSE LET halfSamples == Floor(samplesPerBit, 2)
           first == IF bits[k + 1] = "1" THEN 0 - amplitude ELSE amplitude
       IN encodeManchesterLoop(bits, samplesPerBit, amplitude, k + 1,
                               samples \o Fill(halfSamples, first)
                                       \o Fill(samplesPerBit - halfSamples, 0 - first))

encodeManchester(bits, samplesPerBit, amplitude) ==
  encodeManchesterLoop(bits, samplesPerBit, amplitude, 0, <<>>)

\* encodeDiffManchester with the start transition on a 1 bit
RECURSIVE encodeDiffManchesterLoopFlipOnOne(_, _, _, _, _, _)
encodeDiffManchesterLoopFlipOnOne(bits, samplesPerBit, amplitude, k, currentLevel, samples) ==
  IF k >= Len(bits) THEN samples
  ELSE LET halfSamples == Floor(samplesPerBit, 2)
           start == IF bits[k + 1] = "1" THEN 0 - currentLevel ELSE currentLevel
       IN encodeDiffManchesterLoopFlipOnOne(bits, samplesPerBit, amplitude, k + 1, 0 - start,
                                   samples \o Fill(halfSamples, start)
                                           \o Fill(samplesPerBit - halfSamples, 0 - start))

RECURSIVE encodeDiffManchesterLoop(_, _, _, _, _, _)
encodeDiffManchesterLoop(bits, samplesPerBit, amplitude, k, currentLevel, samples) ==
  IF k >= Len(bits) THEN samples
  ELSE LET halfSamples == Floor(samplesPerBit, 2)
           start == IF bits[k + 1] = "0" THEN 0 - currentLevel ELSE currentLevel
       IN encodeDiffManchesterLoop(bits, samplesPerBit, amplitude, k + 1, 0 - start,
                                   samples \o Fill(halfSamples, start)
                                           \o Fill(samplesPerBit - halfSamples, 0 - start))

encodeDiffManchester(bits, samplesPerBit, amplitude) ==
  encodeDiffManchesterLoop(bits, samplesPerBit, amplitude, 0, amplitude, <<>>)

RECURSIVE encodeAMILoop(_, _, _, _, _, _)
encodeAMILoop(bits, samplesPerBit, amplitude, k, lastPulse, samples) ==
  IF k >= Len(bits) THEN samples
  ELSE IF bits[k + 1] = "1"
       THEN encodeAMILoop(bits, samplesPerBit, amplitude, k + 1, 0 - lastPulse,
                          samples \o Fill(samplesPerBit, 0 - lastPulse))
       ELSE encodeAMILoop(bits, samplesPerBit, amplitude, k + 1, lastPulse,
                          samples \o Fill(samplesPerBit, 0))

\* encodeAMI starting from lastPulse = +amplitude
encodeAMIPositiveStart(bits, samplesPerBit, amplitude) ==
  encodeAMILoop(bits, samplesPerBit, amplitude, 0, amplitude, <<>>)

encodeAMI(bits, samplesPerBit, amplitude) ==
  encodeAMILoop(bits, samplesPerBit, amplitude, 0, 0 - amplitude, <<>>)

\* B8ZSStep keeping lastPulse at V after a substitution
B8ZSStepKeepsPulse(bits, samplesPerBit, amplitude, st) ==
  IF st.i <= Len(bits) - 8 /\ Substring(bits, st.i, 8) = Zeros(8)
  THEN LET V == st.lastPulse
           B == 0 - st.lastPulse
       IN [i |-> st.i + 8,
           lastPulse |-> V,
           samples |-> st.samples
                         \o Fill(samplesPerBit, 0) \o Fill(samplesPerBit, 0)
                         \o Fill(samplesPerBit, 0) \o Fill(samplesPerBit, V)
                         \o Fill(samplesPerBit, B) \o Fill(samplesPerBit, 0)
                         \o Fill(samplesPerBit, V) \o Fill(samplesPerBit, B)]
  ELSE IF st.i < Len(bits) /\ bits[st.i + 1] = "1"
  THEN [i |-> st.i + 1,
        lastPulse |-> 0 - st.lastPulse,
        samples |-> st.samples \o Fill(samplesPerBit, 0 - st.lastPulse)]
  ELSE [i |-> st.i + 1,
        lastPulse |-> st.lastPulse,
        samples |-> st.samples \o Fill(samplesPerBit, 0)]

\* encodeB8ZS: one iteration of the while loop, st = [i, lastPulse, samples]
B8ZSStep(bits, samplesPerBit, amplitude, st) ==
  IF st.i <= Len(bits) - 8 /\ Substring(bits, st.i, 8) = Zeros(8)
  THEN LET V == st.lastPulse
           B == 0 - st.lastPulse
       IN [i |-> st.i + 8,
           lastPulse |-> B,
           samples |-> st.samples
                         \o Fill(samplesPerBit, 0) \o Fill(samplesPerBit, 0)
                         \o Fill(samplesPerBit, 0) \o Fill(samplesPerBit, V)
                         \o Fill(samplesPerBit, B) \o Fill(samplesPerBit, 0)
                         \o Fill(samplesPerBit, V) \o Fill(samplesPerBit, B)]
  ELSE IF st.i < Len(bits) /\ bits[st.i + 1] = "1"
  THEN [i |-> st.i + 1,
        lastPulse |-> 0 - st.lastPulse,
        samples |-> st.samples \o Fill(samplesPerBit, 0 - st.lastPulse)]
  ELSE [i |-> st.i + 1,
        lastPulse |-> st.lastPulse,
        samples |-> st.samples \o Fill(samplesPerBit, 0)]

\* the loop states of encodeB8ZS at every evaluation of its while condition
RECURSIVE B8ZSTraceFrom(_, _, _, _)
B8ZSTraceFrom(bits, samplesPerBit, amplitude, st) ==
  IF st.i < Len(bits)
  THEN <<st>> \o B8ZSTraceFrom(bits, samplesPerBit, amplitude,
                               B8ZSStep(bits, samplesPerBit, amplitude, st))
  ELSE <<st>>

\* B8ZSTrace starting from lastPulse = +amplitude
B8ZSTracePositiveStart(bits, samplesPerBit, amplitude) ==
  B8ZSTraceFrom(bits, samplesPerBit, amplitude,
                [i |-> 0, lastPulse |-> amplitude, samples |-> <<>>])

B8ZSTrace(bits, samplesPerBit, amplitude) ==
  B8ZSTraceFrom(bits, samplesPerBit, amplitude,
                [i |-> 0, lastPulse |-> 0 - amplitude, samples |-> <<>>])

encodeB8ZS(bits, samplesPerBit, amplitude) ==
  LET t == B8ZSTrace(bits, samplesPerBit, amplitude) IN t[Len(t)].samples

\* HDB3Step testing i < bits.length - 4 before a substitution
HDB3StepStrictBound(bits, samplesPerBit, amplitude, st) ==
  IF st.i < Len(bits) - 4 /\ Substring(bits, st.i, 4) = Zeros(4)
  THEN LET V == st.lastPulse
           B == 0 - st.lastPulse
       IN IF st.pulseCount % 2 = 0
          THEN [i |-> st.i + 4,
                lastPulse |-> V,
                pulseCount |-> 1,
                samples |-> st.samples
                              \o Fill(samplesPerBit, B) \o Fill(samplesPerBit, 0)
                              \o Fill(samplesPerBit, 0) \o Fill(samplesPerBit, V)]
          ELSE [i |-> st.i + 4,
                lastPulse |-> V,
                pulseCount |-> 0,
                samples |-> st.samples
                              \o Fill(samplesPerBit, 0) \o Fill(samplesPerBit, 0)
                              \o Fill(samplesPerBit, 0) \o Fill(samplesPerBit, V)]
  ELSE IF st.i < Len(bits) /\ bits[st.i + 1] = "1"
  THEN [i |-> st.i + 1,
        lastPulse |-> 0 - st.lastPulse,
        pulseCount |-> st.pulseCount + 1,
        samples |-> st.samples \o Fill(samplesPerBit, 0 - st.lastPulse)]
  ELSE [i |-> st.i + 1,
        lastPulse |-> st.lastPulse,
        pulseCount |-> st.pulseCount,
        samples |-> st.samples \o Fill(samplesPerBit, 0)]

\* encodeHDB3: one iteration of the while loop,
\* st = [i, lastPulse, pulseCount, samples]
HDB3Step(bits, samplesPerBit, amplitude, st) ==
  IF st.i <= Len(bits) - 4 /\ Substring(bits, st.i, 4) = Zeros(4)
  THEN LET V == st.lastPulse
           B == 0 - st.lastPulse
       IN IF st.pulseCount % 2 = 0
          THEN [i |-> st.i + 4,
                lastPulse |-> V,
                pulseCount |-> 1,
                samples |-> st.samples
                              \o Fill(samplesPerBit, B) \o Fill(samplesPerBit, 0)
                              \o Fill(samplesPerBit, 0) \o Fill(samplesPerBit, V)]
          ELSE [i |-> st.i + 4,
                lastPulse |-> V,
                pulseCount |-> 0,
                samples |-> st.samples
                              \o Fill(samplesPerBit, 0) \o Fill(samplesPerBit, 0)
                              \o Fill(samplesPerBit, 0) \o Fill(samplesPerBit, V)]
  ELSE IF st.i < Len(bits) /\ bits[st.i + 1] = "1"
  THEN [i |-> st.i + 1,
        lastPulse |-> 0 - st.lastPulse,
        pulseCount |-> st.pulseCount + 1,
        samples |-> st.samples \o Fill(samplesPerBit, 0 - st.lastPulse)]
  ELSE [i |-> st.i + 1,
        lastPulse |-> st.lastPulse,
        pulseCount |-> st.pulseCount,
        samples |-> st.samples \o Fill(samplesPerBit, 0)]

\* the loop states of encodeHDB3 at every evaluation of its while condition
RECURSIVE HDB3TraceFrom(_, _, _, _)
HDB3TraceFrom(bits, samplesPerBit, amplitude, st) ==
  IF st.i < Len(bits)
  THEN <<st>> \o HDB3TraceFrom(bits, samplesPerBit, amplitude,
                               HDB3Step(bits, samplesPerBit, amplitude, st))
  ELSE <<st>>

HDB3Trace(bits, samplesPerBit, amplitude) ==
  HDB3TraceFrom(bits, samplesPerBit, amplitude,
                [i |-> 0, lastPulse |-> 0 - amplitude, pulseCount |-> 0,
                 samples |-> <<>>])

\* encodeHDB3 without the substitution branch
encodeHDB3NoSubstitution(bits, samplesPerBit, amplitude) ==
  encodeAMI(bits, samplesPerBit, amplitude)

encodeHDB3(bits, samplesPerBit, amplitude) ==
  LET t == HDB3Trace(bits, samplesPerBit, amplitude) IN t[Len(t)].samples

encode(bits, encoding, samplesPerBit, amplitude) ==
  CASE encoding = "NRZ" -> encodeNRZ(bits, samplesPerBit, amplitude)
    [] encoding = "RZ" -> encodeRZ(bits, samplesPerBit, amplitude)
    [] encoding = "NRZI" -> encodeNRZI(bits, samplesPerBit, amplitude)
    [] encoding = "Manchester" -> encodeManchester(bits, samplesPerBit, amplitude)
    [] encoding = "DiffManchester" -> encodeDiffManchester(bits, samplesPerBit, amplitude)
    [] encoding = "AMI" -> encodeAMI(bits, samplesPerBit, amplitude)
    [] encoding = "B8ZS" -> encodeB8ZS(bits, samplesPerBit, amplitude)
    [] encoding = "HDB3" -> encodeHDB3(bits, samplesPerBit, amplitude)
    [] OTHER -> encodeNRZ(bits, samplesPerBit, amplitude)

\* Array(n) raises RangeError (invalid array length) for a negative n
ArrayThrows(n) == n < 0

\* encode raises: every loop iteration of every encoder evaluates Array(n)
\* with n = samplesPerBit, or with the two half lengths in the half-split
\* schemes; with an empty bit string no iteration runs
encodeThrows(bits, encoding, samplesPerBit) ==
  /\ Len(bits) > 0
  /\ IF encoding \in {"RZ", "Manchester", "DiffManchester"}
     THEN \/ ArrayThrows(Floor(samplesPerBit, 2))
          \/ ArrayThrows(samplesPerBit - Floor(samplesPerBit, 2))
     ELSE ArrayThrows(samplesPerBit)

\* ---------------------------------------------------------------- decoders
\* index is the code's 0-based integer index
getSampleValue(samples, index) ==
  IF index < 0 \/ index >= Len(samples) THEN 0 ELSE samples[index + 1]

\* decodeNRZ looping while i <= samples.length
RECURSIVE decodeNRZLoopInclusive(_, _, _, _)
decodeNRZLoopInclusive(samples, samplesPerBit, i, bits) ==
  IF i <= Len(samples)
  THEN LET value == getSampleValue(samples, i + Floor(samplesPerBit, 2))
       IN decodeNRZLoopInclusive(samples, samplesPerBit, i + samplesPerBit,
                                 Append(bits, IF value > 0 THEN "1" ELSE "0"))
  ELSE bits

RECURSIVE decodeNRZLoop(_, _, _, _)
decodeNRZLoop(samples, samplesPerBit, i, bits) ==
  IF i < Len(samples)
  THEN LET value == getSampleValue(samples, i + Floor(samplesPerBit, 2))
       IN decodeNRZLoop(samples, samplesPerBit, i + samplesPerBit,
                        Append(bits, IF value > 0 THEN "1" ELSE "0"))
  ELSE bits

decodeNRZ(samples, samplesPerBit, amplitude) ==
  decodeNRZLoop(samples, samplesPerBit, 0, <<>>)

\* decodeRZ sampling at the mid point of the bit window
RECURSIVE decodeRZLoopMidPoint(_, _, _, _)
decodeRZLoopMidPoint(samples, samplesPerBit, i, bits) ==
  IF i < Len(samples)
  THEN LET value == getSampleValue(samples, i + Floor(samplesPerBit, 2))
       IN decodeRZLoopMidPoint(samples, samplesPerBit, i + samplesPerBit,
                       Append(bits, IF value > 0 THEN "1" ELSE "0"))
  ELSE bits

RECURSIVE decodeRZLoop(_, _, _, _)
decodeRZLoop(samples, samplesPerBit, i, bits) ==
  IF i < Len(samples)
  THEN LET value == getSampleValue(samples, i + Floor(samplesPerBit, 4))
       IN decodeRZLoop(samples, samplesPerBit, i + samplesPerBit,
                       Append(bits, IF value > 0 THEN "1" ELSE "0"))
  ELSE bits

decodeRZ(samples, samplesPerBit, amplitude) ==
  decodeRZLoop(samples, samplesPerBit, 0, <<>>)

RECURSIVE decodeNRZILoop(_, _, _, _, _)
decodeNRZILoop(samples, samplesPerBit, i, previousLevel, bits) ==
  IF i < Len(samples)
  THEN LET currentLevel == getSampleValue(samples, i + Floor(samplesPerBit, 2))
           bit == IF i = 0 THEN "0"
                  ELSE IF SignDiffers(Sign(currentLevel), Sign(previousLevel))
                       THEN "1" ELSE "0"
       IN decodeNRZILoop(samples, samplesPerBit, i + samplesPerBit, currentLevel,
                         Append(bits, bit))
  ELSE bits

decodeNRZI(samples, samplesPerBit, amplitude) ==
  IF Len(samples) = 0 THEN <<>>
  ELSE decodeNRZILoop(samples, samplesPerBit, 0, getSampleValue(samples, 0), <<>>)

RECURSIVE decodeManchesterLoop(_, _, _, _)
decodeManchesterLoop(samples, samplesPerBit, i, bits) ==
  IF i < Len(samples)
  THEN LET firstValue == getSampleValue(samples, i + Floor(samplesPerBit, 4))
           secondValue == getSampleValue(samples, i + Floor(3 * samplesPerBit, 4))
       IN decodeManchesterLoop(samples, samplesPerBit, i + samplesPerBit,
              Append(bits, IF firstValue < 0 /\ secondValue > 0 THEN "1" ELSE "0"))
  ELSE bits

decodeManchester(samples, samplesPerBit, amplitude) ==
  decodeManchesterLoop(samples, samplesPerBit, 0, <<>>)

\* Math.sign(getSampleValue(samples, half / 2)): half / 2 is not floored.
\* For odd half the index is fractional: it passes both range guards when
\* it is between 0 and the length, samples[index] is then undefined and its
\* sign NaN.
InitialPreviousMidSign(samples, half) ==
  IF half % 2 = 0 THEN Sign(getSampleValue(samples, half \div 2))
  ELSE IF half < 0 \/ half >= 2 * Len(samples) THEN 0
  ELSE NaN

\* previousMidSign is Math.sign(previousMid)
RECURSIVE decodeDiffManchesterLoop(_, _, _, _, _)
decodeDiffManchesterLoop(samples, samplesPerBit, i, previousMidSign, bits) ==
  IF i < Len(samples)
  THEN LET half == Floor(samplesPerBit, 2)
           startSample == getSampleValue(samples, i)
           midSample == getSampleValue(samples, i + half)
       IN decodeDiffManchesterLoop(samples, samplesPerBit, i + samplesPerBit,
              Sign(midSample),
              Append(bits, IF SignDiffers(Sign(startSample), previousMidSign)
                           THEN "0" ELSE "1"))
  ELSE bits

decodeDiffManchester(samples, samplesPerBit, amplitude) ==
  IF Len(samples) = 0 THEN <<>>
  ELSE decodeDiffManchesterLoop(samples, samplesPerBit, 0,
           InitialPreviousMidSign(samples, Floor(samplesPerBit, 2)), <<>>)

\* Math.abs(value) > Math.abs(amplitude) * 0.5
AboveThreshold(value, amplitude) == 2 * Abs(value) > Abs(amplitude)

RECURSIVE decodeAMILoop(_, _, _, _, _)
decodeAMILoop(samples, samplesPerBit, amplitude, i, bits) ==
  IF i < Len(samples)
  THEN LET value == getSampleValue(samples, i + Floor(samplesPerBit, 2))
       IN decodeAMILoop(samples, samplesPerBit, amplitude, i + samplesPerBit,
              Append(bits, IF AboveThreshold(value, amplitude) THEN "1" ELSE "0"))
  ELSE bits

decodeAMI(samples, samplesPerBit, amplitude) ==
  decodeAMILoop(samples, samplesPerBit, amplitude, 0, <<>>)

\* Math.abs(getSampleValue(samples, i + k * samplesPerBit
\*                                   + Math.floor(samplesPerBit / 2))) > ampThreshold
SlotIsPulse(samples, samplesPerBit, amplitude, i, k) ==
  AboveThreshold(getSampleValue(samples, i + k * samplesPerBit + Floor(samplesPerBit, 2)),
                 amplitude)

\* decodeB8ZS: the pattern test 000VB0VB on the 8 windows starting at sample i
B8ZSPatternAt(samples, samplesPerBit, amplitude, i) ==
  /\ i <= Len(samples) - 8 * samplesPerBit
  /\ ~SlotIsPulse(samples, samplesPerBit, amplitude, i, 0)
  /\ ~SlotIsPulse(samples, samplesPerBit, amplitude, i, 1)
  /\ ~SlotIsPulse(samples, samplesPerBit, amplitude, i, 2)
  /\ SlotIsPulse(samples, samplesPerBit, amplitude, i, 3)
  /\ SlotIsPulse(samples, samplesPerBit, amplitude, i, 4)
  /\ ~SlotIsPulse(samples, samplesPerBit, amplitude, i, 5)
  /\ SlotIsPulse(samples, samplesPerBit, amplitude, i, 6)
  /\ SlotIsPulse(samples, samplesPerBit, amplitude, i, 7)

\* decodeB8ZS: one iteration of the while loop, st = [i, bits]
decodeB8ZSStep(samples, samplesPerBit, amplitude, st) ==
  IF B8ZSPatternAt(samples, samplesPerBit, amplitude, st.i)
  THEN [i |-> st.i + 8 * samplesPerBit, bits |-> st.bits \o Zeros(8)]
  ELSE [i |-> st.i + samplesPerBit,
        bits |-> Append(st.bits,
                        IF SlotIsPulse(samples, samplesPerBit, amplitude, st.i, 0)
                        THEN "1" ELSE "0")]

\* the loop states of decodeB8ZS at every evaluation of its while condition
RECURSIVE decodeB8ZSTraceFrom(_, _, _, _)
decodeB8ZSTraceFrom(samples, samplesPerBit, amplitude, st) ==
  IF st.i < Len(samples)
  THEN <<st>> \o decodeB8ZSTraceFrom(samples, samplesPerBit, amplitude,
                     decodeB8ZSStep(samples, samplesPerBit, amplitude, st))
  ELSE <<st>>

decodeB8ZSTrace(samples, samplesPerBit, amplitude) ==
  decodeB8ZSTraceFrom(samples, samplesPerBit, amplitude, [i |-> 0, bits |-> <<>>])

decodeB8ZS(samples, samplesPerBit, amplitude) ==
  LET t == decodeB8ZSTrace(samples, samplesPerBit, amplitude) IN t[Len(t)].bits

\* decodeHDB3: the pattern tests B00V and 000V on the 4 windows starting at
\* sample i; both accept when slots 1 and 2 are empty and slot 3 is a pulse
HDB3PatternAt(samples, samplesPerBit, amplitude, i) ==
  /\ i <= Len(samples) - 4 * samplesPerBit
  /\ LET bit0 == SlotIsPulse(samples, samplesPerBit, amplitude, i, 0)
         bit1 == SlotIsPulse(samples, samplesPerBit, amplitude, i, 1)
         bit2 == SlotIsPulse(samples, samplesPerBit, amplitude, i, 2)
         bit3 == SlotIsPulse(samples, samplesPerBit, amplitude, i, 3)
     IN \/ bit0 /\ ~bit1 /\ ~bit2 /\ bit3
        \/ ~bit0 /\ ~bit1 /\ ~bit2 /\ bit3

\* decodeHDB3Step emitting 3 bits for a matched pattern
decodeHDB3StepShortEmit(samples, samplesPerBit, amplitude, st) ==
  IF HDB3PatternAt(samples, samplesPerBit, amplitude, st.i)
  THEN [i |-> st.i + 4 * samplesPerBit, bits |-> st.bits \o Zeros(3)]
  ELSE [i |-> st.i + samplesPerBit,
        bits |-> Append(st.bits,
                        IF SlotIsPulse(samples, samplesPerBit, amplitude, st.i, 0)
                        THEN "1" ELSE "0")]

\* decodeHDB3: one iteration of the while loop, st = [i, bits]
decodeHDB3Step(samples, samplesPerBit, amplitude, st) ==
  IF HDB3PatternAt(samples, samplesPerBit, amplitude, st.i)
  THEN [i |-> st.i + 4 * samplesPerBit, bits |-> st.bits \o Zeros(4)]
  ELSE [i |-> st.i + samplesPerBit,
        bits |-> Append(st.bits,
                        IF SlotIsPulse(samples, samplesPerBit, amplitude, st.i, 0)
                        THEN "1" ELSE "0")]

\* the loop states of decodeHDB3 at every evaluation of its while condition
RECURSIVE decodeHDB3TraceFrom(_, _, _, _)
decodeHDB3TraceFrom(samples, samplesPerBit, amplitude, st) ==
  IF st.i < Len(samples)
  THEN <<st>> \o decodeHDB3TraceFrom(samples, samplesPerBit, amplitude,
                     decodeHDB3Step(samples, samplesPerBit, amplitude, st))
  ELSE <<st>>

decodeHDB3Trace(samples, samplesPerBit, amplitude) ==
  decodeHDB3TraceFrom(samples, samplesPerBit, amplitude, [i |-> 0, bits |-> <<>>])

decodeHDB3(samples, samplesPerBit, amplitude) ==
  LET t == decodeHDB3Trace(samples, samplesPerBit, amplitude) IN t[Len(t)].bits

\* the decoder of one scheme, called without the dispatcher
decodeScheme(samples, encoding, samplesPerBit, amplitude) ==
  CASE encoding = "NRZ" -> decodeNRZ(samples, samplesPerBit, amplitude)
    [] encoding = "RZ" -> decodeRZ(samples, samplesPerBit, amplitude)
    [] encoding = "NRZI" -> decodeNRZI(samples, samplesPerBit, amplitude)
    [] encoding = "Manchester" -> decodeManchester(samples, samplesPerBit, amplitude)
    [] encoding = "DiffManchester" -> decodeDiffManchester(samples, samplesPerBit, amplitude)
    [] encoding = "AMI" -> decodeAMI(samples, samplesPerBit, amplitude)
    [] encoding = "B8ZS" -> decodeB8ZS(samples, samplesPerBit, amplitude)
    [] encoding = "HDB3" -> decodeHDB3(samples, samplesPerBit, amplitude)
    [] OTHER -> decodeNRZ(samples, samplesPerBit, amplitude)

decode(samples, encoding, samplesPerBit, amplitude) ==
  IF Len(samples) = 0 THEN <<>>
  ELSE decodeScheme(samples, encoding, samplesPerBit, amplitude)

\* decode of utils/decoders.ts: six cases, every other id falls to the
\* default branch
decodeSixCases(samples, encoding, samplesPerBit, amplitude) ==
  IF Len(samples) = 0 THEN <<>>
  ELSE CASE encoding = "NRZ" -> decodeNRZ(samples, samplesPerBit, amplitude)
         [] encoding = "RZ" -> decodeRZ(samples, samplesPerBit, amplitude)
         [] encoding = "NRZI" -> decodeNRZI(samples, samplesPerBit, amplitude)
         [] encoding = "Manchester" ->
              decodeManchester(samples, samplesPerBit, amplitude)
         [] encoding = "DiffManchester" ->
              decodeDiffManchester(samples, samplesPerBit, amplitude)
         [] encoding = "AMI" -> decodeAMI(samples, samplesPerBit, amplitude)
         [] OTHER -> decodeNRZ(samples, samplesPerBit, amplitude)

\* The locals of the selected decoder's loop before its first iteration,
\* st = [i, bits, prev]; prev is previousLevel in decodeNRZI and
\* Math.sign(previousMid) in decodeDiffManchester, unused elsewhere
decodeLoopInit(samples, encoding, samplesPerBit) ==
  [i |-> 0, bits |-> <<>>,
   prev |-> CASE encoding = "NRZI" -> getSampleValue(samples, 0)
              [] encoding = "DiffManchester" ->
                   InitialPreviousMidSign(samples, Floor(samplesPerBit, 2))
              [] OTHER -> 0]

\* One iteration of the selected decoder's loop
decodeLoopStep(samples, encoding, samplesPerBit, amplitude, st) ==
  LET mid == getSampleValue(samples, st.i + Floor(samplesPerBit, 2))
      advance(bit, prev) ==
        [i |-> st.i + samplesPerBit, bits |-> Append(st.bits, bit), prev |-> prev]
  IN CASE encoding = "RZ" ->
            advance(IF getSampleValue(samples, st.i + Floor(samplesPerBit, 4)) > 0
                    THEN "1" ELSE "0", st.prev)
       [] encoding = "NRZI" ->
            advance(IF st.i = 0 THEN "0"
                    ELSE IF SignDiffers(Sign(mid), Sign(st.prev)) THEN "1" ELSE "0",
                    mid)
       [] encoding = "Manchester" ->
            advance(IF /\ getSampleValue(samples, st.i + Floor(samplesPerBit, 4)) < 0
                       /\ getSampleValue(samples, st.i + Floor(3 * samplesPerBit, 4)) > 0
                    THEN "1" ELSE "0", st.prev)
       [] encoding = "DiffManchester" ->
            advance(IF SignDiffers(Sign(getSampleValue(samples, st.i)), st.prev)
                    THEN "0" ELSE "1", Sign(mid))
       [] encoding = "AMI" ->
            advance(IF AboveThreshold(mid, amplitude) THEN "1" ELSE "0", st.prev)
       [] encoding = "B8ZS" ->
            LET n == decodeB8ZSStep(samples, samplesPerBit, amplitude,
                                    [i |-> st.i, bits |-> st.bits])
            IN [i |-> n.i, bits |-> n.bits, prev |-> st.prev]
       [] encoding = "HDB3" ->
            LET n == decodeHDB3Step(samples, samplesPerBit, amplitude,
                                    [i |-> st.i, bits |-> st.bits])
            IN [i |-> n.i, bits |-> n.bits, prev |-> st.prev]
       [] OTHER -> advance(IF mid > 0 THEN "1" ELSE "0", st.prev)

\* ------------------------------------------------------- error comparator
RECURSIVE findErrorsLoop(_, _, _, _, _)
findErrorsLoop(original, decoded, minLen, i, errors) ==
  IF i < minLen
  THEN findErrorsLoop(original, decoded, minLen, i + 1,
                      IF original[i + 1] # decoded[i + 1]
                      THEN Append(errors, i) ELSE errors)
  ELSE errors

\* findErrors stopping one position before the shorter length
findErrorsShortLoop(original, decoded) ==
  findErrorsLoop(original, decoded, Min(Len(original), Len(decoded)) - 1, 0, <<>>)

findErrors(original, decoded) ==
  findErrorsLoop(original, decoded, Min(Len(original), Len(decoded)), 0, <<>>)

\* ------------------------------------------------------------------ noise
\* addAwgn returning early for noiseStd = 0 only
addAwgnZeroOnly(samples, noiseStd, draw) ==
  IF noiseStd = 0
  THEN [out |-> samples, randomCalls |-> 0]
  ELSE [out |-> [k \in 1..Len(samples) |-> samples[k] + draw[k] * noiseStd + 0],
        randomCalls |-> 2 * Len(samples)]

\* addAwgn(samples, noiseStd) for one outcome of the random draws:
\* draw[k] stands for the standard normal value z0 that gaussianRandom
\* computes for sample k, so sample k receives z0 * std + 0.
\* The result is [out, randomCalls]: the returned array and the number of
\* Math.random() calls made (two per gaussianRandom call).
addAwgn(samples, noiseStd, draw) ==
  IF noiseStd <= 0
  THEN [out |-> samples, randomCalls |-> 0]
  ELSE [out |-> [k \in 1..Len(samples) |-> samples[k] + draw[k] * noiseStd + 0],
        randomCalls |-> 2 * Len(samples)]

\* ------------------------------------------------------------ state machine
VARIABLES bits, encoding, samplesPerBit, amplitude, samples, noiseStd, noisy,
          randomCalls, decodedBits, via, errors, pc,
          thrown,   \* the error raised by the last call, or "none"
          loop,     \* [i, bits, prev]: the locals of a decoder loop run stepwise
          typed     \* the text of the last input event of the bits field

vars == <<bits, encoding, samplesPerBit, amplitude, samples, noiseStd, noisy,
          randomCalls, decodedBits, via, errors, pc, thrown, loop, typed>>

\* the decoder loop locals when no decoder loop is running
NoLoop == [i |-> 0, bits |-> <<>>, prev |-> 0]

\* all bit strings of length 0..n
BitStrings(n) == UNION {[1..k -> {"0", "1"}] : k \in 0..n}

\* bit strings holding a run of 8, 16, ... zeros between short paddings
ZeroRunInputs ==
  {pre \o Zeros(8 * k) \o post :
     k \in 1..MaxSubs, pre \in BitStrings(MaxPad), post \in BitStrings(MaxPad)}

\* runHDB3Tests: samplesPerBit, amplitude and the fixed inputs of tests 1 to 6
RunnerSamplesPerBit == 10

RunnerAmplitude == 1

Str(digits) == [k \in 1..Len(digits) |-> IF digits[k] = 1 THEN "1" ELSE "0"]

RunnerInputs ==
  {Str(<<1,0,1,1,0,0,1,1>>), Str(<<1,1,1,1,0,0,0,0>>), Str(<<1,0,1,0,1,0>>),
   Str(<<0,0,0,0,1,1,1,1>>),
   Str(<<1,1,1,0,0,0,0,1,1,1,1,0,0,0,0,1,1,1,1>>),
   Str(<<0,0,0,0,0,0,0,0>>),
   Str(<<1,0,1,0,1,0,1,0,1,0>>),
   Str(<<1,1,0,0,0,0>>),
   Str(<<1,0,0,0,0>>)}

Inputs == BitStrings(MaxLen) \cup ZeroRunInputs \cup RunnerInputs

\* values standing for the standard normal draws of gaussianRandom
DrawValues == {0 - 1, 0, 1}

Init ==
  /\ bits \in Inputs
  /\ encoding \in SchemeId
  /\ samplesPerBit \in 1..MaxSpb \cup {RunnerSamplesPerBit}
  /\ amplitude \in 1..MaxAmp \cup {RunnerAmplitude}
  /\ samples = <<>>
  /\ noiseStd = 0
  /\ noisy = <<>>
  /\ randomCalls = 0
  /\ decodedBits = <<>>
  /\ via = "none"
  /\ errors = <<>>
  /\ pc = "idle"
  /\ thrown = "none"
  /\ loop = NoLoop
  /\ typed = <<>>

\* samples = encode(bits, encoding, samplesPerBit, amplitude), or the
\* RangeError of Array(n) propagating out of encode
Encode ==
  /\ pc = "idle"
  /\ IF encodeThrows(bits, encoding, samplesPerBit)
     THEN /\ thrown' = "RangeError"
          /\ pc' = "failed"
          /\ samples' = samples
     ELSE /\ samples' = encode(bits, encoding, samplesPerBit, amplitude)
          /\ pc' = "encoded"
          /\ thrown' = thrown
  /\ UNCHANGED <<bits, encoding, samplesPerBit, amplitude, noiseStd, noisy,
                 randomCalls, decodedBits, via, errors, loop, typed>>

\* noisy = addAwgn(samples, std); the random draws are enumerated for short
\* sample sequences only.  With std <= 0 the code makes no draw: one
\* representative draw vector is supplied, which addAwgn does not read.
AddAwgn ==
  /\ pc = "encoded"
  /\ \E std \in (0 - MaxNoise)..MaxNoise :
       /\ std > 0 => Len(samples) <= MaxNoisyLen
       /\ \E draw \in (IF std > 0 THEN [1..Len(samples) -> DrawValues]
                                   ELSE {[k \in 1..Len(samples) |-> 1]}) :
            LET r == addAwgn(samples, std, draw)
            IN /\ noisy' = r.out
               /\ randomCalls' = r.randomCalls
       /\ noiseStd' = std
  /\ pc' = "noised"
  /\ UNCHANGED <<bits, encoding, samplesPerBit, amplitude, samples,
                 decodedBits, via, errors>>
  /\ UNCHANGED <<thrown, loop, typed>>

\* decodedBits = decode(noisy, encoding, samplesPerBit, amplitude)
Decode ==
  /\ pc = "noised"
  /\ decodedBits' = decode(noisy, encoding, samplesPerBit, amplitude)
  /\ via' = "dispatch"
  /\ pc' = "decoded"
  /\ UNCHANGED <<bits, encoding, samplesPerBit, amplitude, samples, noiseStd,
                 noisy, randomCalls, errors>>
  /\ UNCHANGED <<thrown, loop, typed>>

\* decodedBits = decodeNRZ(...), decodeRZ(...), ...: the scheme's decoder
\* called directly, as the test runner calls decodeHDB3
DecodeDirect ==
  /\ pc = "noised"
  /\ decodedBits' = decodeScheme(noisy, encoding, samplesPerBit, amplitude)
  /\ via' = "direct"
  /\ pc' = "decoded"
  /\ UNCHANGED <<bits, encoding, samplesPerBit, amplitude, samples, noiseStd,
                 noisy, randomCalls, errors>>
  /\ UNCHANGED <<thrown, loop, typed>>

\* errors = findErrors(bits, decodedBits)
FindErrors ==
  /\ pc = "decoded"
  /\ errors' = findErrors(bits, decodedBits)
  /\ pc' = "compared"
  /\ UNCHANGED <<bits, encoding, samplesPerBit, amplitude, samples, noiseStd,
                 noisy, randomCalls, decodedBits, via>>
  /\ UNCHANGED <<thrown, loop, typed>>

Next == Encode \/ AddAwgn \/ Decode \/ DecodeDirect \/ FindErrors

Spec == Init /\ [][Next]_vars

\* The comparator on arbitrary pairs of strings, of equal or different length
InitCmp ==
  /\ bits \in BitStrings(MaxCmpLen)
  /\ decodedBits \in BitStrings(MaxCmpLen)
  /\ encoding = "NRZ"
  /\ samplesPerBit = 1
  /\ amplitude = 1
  /\ samples = <<>>
  /\ noiseStd = 0
  /\ noisy = <<>>
  /\ randomCalls = 0
  /\ via = "none"
  /\ errors = <<>>
  /\ pc = "decoded"
  /\ thrown = "none"
  /\ loop = NoLoop
  /\ typed = <<>>

NextCmp == FindErrors

SpecCmp == InitCmp /\ [][NextCmp]_vars

\* encode on arguments outside its contract: characters other than "0" and
\* "1" in the bit string, samplesPerBit zero or negative
EdgeStrings(n) == UNION {[1..k -> {"0", "1", "x"}] : k \in 0..n}

InitEdge ==
  /\ bits \in EdgeStrings(MaxEdgeLen)
  /\ encoding \in SchemeId
  /\ samplesPerBit \in (0 - MaxNegSpb)..MaxEdgeSpb
  /\ amplitude \in 1..MaxAmp
  /\ samples = <<>>
  /\ noiseStd = 0
  /\ noisy = <<>>
  /\ randomCalls = 0
  /\ decodedBits = <<>>
  /\ via = "none"
  /\ errors = <<>>
  /\ pc = "idle"
  /\ thrown = "none"
  /\ loop = NoLoop
  /\ typed = <<>>

NextEdge == Encode

SpecEdge == InitEdge /\ [][NextEdge]_vars

\* decode run one loop iteration at a time, on any sample sequence and any
\* integer samplesPerBit
SampleSeqs(n) == UNION {[1..k -> {0 - 1, 0, 1}] : k \in 1..n}

\* sample sequences that hold a B8ZS substitution, one sample per bit
PatternSeqs == {encodeB8ZS(p \o Zeros(8), 1, 1) : p \in BitStrings(MaxPad)}

InitLoop ==
  /\ bits = <<>>
  /\ encoding \in SchemeId
  /\ samplesPerBit \in (0 - MaxNegSpb)..MaxLoopSpb
  /\ amplitude \in 1..MaxAmp
  /\ samples = <<>>
  /\ noiseStd = 0
  /\ noisy \in SampleSeqs(MaxLoopLen) \cup PatternSeqs
  /\ randomCalls = 0
  /\ decodedBits = <<>>
  /\ via = "none"
  /\ errors = <<>>
  /\ pc = "noised"
  /\ thrown = "none"
  /\ loop = NoLoop
  /\ typed = <<>>

\* decode is entered: the empty guard, the switch, the decoder's locals
DecodeEnter ==
  /\ pc = "noised"
  /\ IF Len(noisy) = 0
     THEN /\ decodedBits' = <<>>
          /\ pc' = "decoded"
          /\ loop' = loop
     ELSE /\ loop' = decodeLoopInit(noisy, encoding, samplesPerBit)
          /\ pc' = "looping"
          /\ decodedBits' = decodedBits
  /\ via' = "dispatch"
  /\ UNCHANGED <<bits, encoding, samplesPerBit, amplitude, samples, noiseStd,
                 noisy, randomCalls, errors, thrown, typed>>

\* the loop condition holds: one iteration of the body.  The iteration
\* count is capped, the code has no such cap.
DecodeIterate ==
  /\ pc = "looping"
  /\ loop.i < Len(noisy)
  /\ Len(loop.bits) < MaxLoopBits
  /\ loop' = decodeLoopStep(noisy, encoding, samplesPerBit, amplitude, loop)
  /\ UNCHANGED <<bits, encoding, samplesPerBit, amplitude, samples, noiseStd,
                 noisy, randomCalls, decodedBits, via, errors, pc, thrown, typed>>

\* the loop condition fails: the decoder returns bits
DecodeReturn ==
  /\ pc = "looping"
  /\ ~(loop.i < Len(noisy))
  /\ decodedBits' = loop.bits
  /\ pc' = "decoded"
  /\ UNCHANGED <<bits, encoding, samplesPerBit, amplitude, samples, noiseStd,
                 noisy, randomCalls, via, errors, thrown, loop, typed>>

NextLoop == DecodeEnter \/ DecodeIterate \/ DecodeReturn

SpecLoop == InitLoop /\ [][NextLoop]_vars

\* The page without the channel: encode, then decode of utils/decoders.ts on
\* the clean samples, amplitude left at its default 1
InitDispatch ==
  /\ bits \in BitStrings(MaxDispatchLen)
  /\ encoding \in SchemeId
  /\ samplesPerBit \in 1..MaxLoopSpb
  /\ amplitude \in 1..MaxAmp
  /\ samples = <<>>
  /\ noiseStd = 0
  /\ noisy = <<>>
  /\ randomCalls = 0
  /\ decodedBits = <<>>
  /\ via = "none"
  /\ errors = <<>>
  /\ pc = "idle"
  /\ thrown = "none"
  /\ loop = NoLoop
  /\ typed = <<>>

\* decoded = decode(newSamples, encoding, samplesPerBit)
DecodeClean ==
  /\ pc = "encoded"
  /\ decodedBits' = decodeSixCases(samples, encoding, samplesPerBit, 1)
  /\ via' = "decoders.ts"
  /\ pc' = "decoded"
  /\ UNCHANGED <<bits, encoding, samplesPerBit, amplitude, samples, noiseStd,
                 noisy, randomCalls, errors, thrown, loop, typed>>

NextDispatch == Encode \/ DecodeClean

SpecDispatch == InitDispatch /\ [][NextDispatch]_vars

\* encode on bit strings with two runs of 8 zeros, each run after an
\* optional prefix: the ordinary pulses between two substitutions
InterleavedInputs ==
  {p \o Zeros(8) \o q \o Zeros(8) \o r :
     p \in BitStrings(MaxPad), q \in BitStrings(MaxPad), r \in BitStrings(MaxPad)}

InitInterleaved ==
  /\ bits \in InterleavedInputs
  /\ encoding \in SchemeId
  /\ samplesPerBit \in 1..MaxEdgeSpb
  /\ amplitude \in 1..MaxAmp
  /\ samples = <<>>
  /\ noiseStd = 0
  /\ noisy = <<>>
  /\ randomCalls = 0
  /\ decodedBits = <<>>
  /\ via = "none"
  /\ errors = <<>>
  /\ pc = "idle"
  /\ thrown = "none"
  /\ loop = NoLoop
  /\ typed = <<>>

NextInterleaved == Encode

SpecInterleaved == InitInterleaved /\ [][NextInterleaved]_vars

\* The page: the controls set the inputs, every change of an input re-renders
\* and runs the auto-encode effect.  The noise slider stays at 0; the noisy
\* samples are a local of handleEncode, the variable noisy is not used.
UiEncodings == {"NRZ", "RZ", "NRZI", "Manchester", "DiffManchester", "AMI"}

DefaultBits == Str(<<1, 0, 1, 1, 0, 0, 1, 1>>)
DefaultSamplesPerBit == 40
DefaultAmplitude == 1
SliderMin == 20
SliderMax == 100
SliderStep == 10

\* the integer positions of the amplitude slider, 0.5 to 2.0
UiAmplitudes == {1, 2}

Presets == {Str(<<1, 0, 1, 0>>), Str(<<1, 1, 1, 1, 0, 0, 0, 0>>),
            Str(<<1, 0, 1, 0, 1, 0, 1, 0, 1, 0, 1, 0>>)}

\* handleBitsInput passing the typed text on unchanged
handleBitsInputKeepAll(value) == value

\* value.replace(/[^01]/g, '')
handleBitsInput(value) == SelectSeq(value, LAMBDA c : c \in {"0", "1"})

\* the outcomes of the Math.random() > 0.5 tests of handleRandomize for a
\* string of n characters: all false, all true, alternating
RandomCoins(n) ==
  {[k \in 1..n |-> 0], [k \in 1..n |-> 1], [k \in 1..n |-> k % 2]}

InitUi ==
  /\ bits = DefaultBits
  /\ encoding = "NRZ"
  /\ samplesPerBit = DefaultSamplesPerBit
  /\ amplitude = DefaultAmplitude
  /\ samples = <<>>
  /\ noiseStd = 0
  /\ noisy = <<>>
  /\ randomCalls = 0
  /\ decodedBits = <<>>
  /\ via = "none"
  /\ errors = <<>>
  /\ pc = "mounting"
  /\ thrown = "none"
  /\ loop = NoLoop
  /\ typed = <<>>

\* handleEncode on the state values b, e, s, a of the current render
handleEncode(b, e, s, a) ==
  IF encodeThrows(b, e, s)
  THEN /\ thrown' = "RangeError"
       /\ UNCHANGED <<samples, decodedBits, errors>>
  ELSE LET cleanSamples == encode(b, e, s, a)
           effectiveNoiseStd == noiseStd * a
           noisySamples ==
             addAwgn(cleanSamples, effectiveNoiseStd,
                     [k \in 1..Len(cleanSamples) |-> 0]).out
           decoded == decodeSixCases(noisySamples, e, s, a)
       IN /\ samples' = noisySamples
          /\ decodedBits' = decoded
          /\ errors' = findErrors(b, decoded)
          /\ thrown' = "none"

\* the auto-encode effect of a render with the state values b, e, s, a
AutoEncode(b, e, s, a) ==
  IF Len(b) > 0
  THEN handleEncode(b, e, s, a)
  ELSE UNCHANGED <<samples, decodedBits, errors, thrown>>

\* the state setters were called with b, e, s, a: when a value changed the
\* page re-renders and the effect runs, otherwise nothing happens
Commit(b, e, s, a) ==
  /\ bits' = b
  /\ encoding' = e
  /\ samplesPerBit' = s
  /\ amplitude' = a
  /\ IF <<b, e, s, a>> # <<bits, encoding, samplesPerBit, amplitude>>
     THEN AutoEncode(b, e, s, a)
     ELSE UNCHANGED <<samples, decodedBits, errors, thrown>>
  /\ UNCHANGED <<noiseStd, noisy, randomCalls, via, pc, loop>>

\* the first render: the effect runs on the initial state
Mount ==
  /\ pc = "mounting"
  /\ AutoEncode(bits, encoding, samplesPerBit, amplitude)
  /\ pc' = "settled"
  /\ UNCHANGED <<bits, encoding, samplesPerBit, amplitude, noiseStd, noisy,
                 randomCalls, via, loop, typed>>

TypeBits ==
  /\ pc = "settled"
  /\ \E value \in EdgeStrings(MaxTypedLen) :
       /\ typed' = value
       /\ Commit(handleBitsInput(value), encoding, samplesPerBit, amplitude)

SetPreset ==
  /\ pc = "settled"
  /\ typed' = <<>>
  /\ \E preset \in Presets :
       Commit(preset, encoding, samplesPerBit, amplitude)

\* length = Math.floor(Math.random() * 8) + 8, one coin per character
Randomize ==
  /\ pc = "settled"
  /\ typed' = <<>>
  /\ \E extra \in 0..Min(MaxRandomExtra, 7) :
       \E coins \in RandomCoins(8 + extra) :
         Commit([k \in 1..(8 + extra) |-> IF coins[k] = 1 THEN "1" ELSE "0"],
                encoding, samplesPerBit, amplitude)

SetEncoding ==
  /\ pc = "settled"
  /\ typed' = <<>>
  /\ \E e \in UiEncodings : Commit(bits, e, samplesPerBit, amplitude)

SetSamplesPerBit ==
  /\ pc = "settled"
  /\ typed' = <<>>
  /\ \E k \in 0..MaxSliderSteps :
       /\ SliderMin + SliderStep * k <= SliderMax
       /\ Commit(bits, encoding, SliderMin + SliderStep * k, amplitude)

SetAmplitude ==
  /\ pc = "settled"
  /\ typed' = <<>>
  /\ \E a \in UiAmplitudes : Commit(bits, encoding, samplesPerBit, a)

Reset ==
  /\ pc = "settled"
  /\ typed' = <<>>
  /\ Commit(DefaultBits, "NRZ", DefaultSamplesPerBit, DefaultAmplitude)

NextUi ==
  \/ Mount
  \/ TypeBits
  \/ SetPreset
  \/ Randomize
  \/ SetEncoding
  \/ SetSamplesPerBit
  \/ SetAmplitude
  \/ Reset

SpecUi == InitUi /\ [][NextUi]_vars

\* ----------------------------------------------------- derived observations
\* samplesToSymbols of the test runner: "+", "-" or "0" per bit window, read
\* at the first sample of the window (Math.abs(value) < 0.1 is value = 0 on
\* integer levels)
samplesToSymbols(ss, spb) ==
  [k \in 1..((Len(ss) + spb - 1) \div spb) |->
     LET value == ss[(k - 1) * spb + 1]
     IN IF value = 0 THEN "0" ELSE IF value > 0 THEN "+" ELSE "-"]

\* level of the bit window at 0-based bit position p
LevelAt(ss, spb, p) == ss[p * spb + 1]

\* the pipeline ran without noise up to the decoder
NoiseFree == noisy = samples

\* indices k of a loop trace whose step from t[k] to t[k+1] advanced by adv
StepsAdvancing(t, adv) == {k \in 1..(Len(t) - 1) : t[k + 1].i - t[k].i = adv}

\* ------------------------------------------------------------------ claims

\* C1: round trip - for every scheme, every bit string of length >= 1, every
\* even samplesPerBit >= 4 and every positive amplitude, decoding the
\* noise-free encoding returns the original bit string.
C1_RoundTrip ==
  ( /\ pc = "decoded"
    /\ via = "dispatch"
    /\ NoiseFree
    /\ Len(bits) >= 1
    /\ samplesPerBit % 2 = 0
    /\ samplesPerBit >= 4 )
  => decodedBits = bits

\* C2: HDB3 round trip of the test runner - decodeHDB3(encodeHDB3(bits))
\* equals bits for every bit string, the runner's fixed inputs at
\* samplesPerBit = 10 and amplitude = 1 included.
C2_HDB3RoundTrip ==
  ( /\ pc = "decoded"
    /\ via = "direct"
    /\ encoding = "HDB3"
    /\ NoiseFree )
  => decodedBits = bits

\* C3: HDB3 substitution choice - every substitution of encodeHDB3 emits
\* 0,0,0,V when the pulse count since the last substitution is even and
\* B,0,0,V when it is odd; '110000' is emitted as + - 0 0 0 - and '10000'
\* as + - 0 0 +.
C3_HDB3SubstitutionChoice ==
  (pc = "encoded" /\ encoding = "HDB3") =>
    LET t == HDB3Trace(bits, samplesPerBit, amplitude)
    IN /\ \A k \in StepsAdvancing(t, 4) :
            LET first == LevelAt(samples, samplesPerBit, t[k].i)
                fourth == LevelAt(samples, samplesPerBit, t[k].i + 3)
            IN /\ LevelAt(samples, samplesPerBit, t[k].i + 1) = 0
               /\ LevelAt(samples, samplesPerBit, t[k].i + 2) = 0
               /\ fourth # 0
               /\ (t[k].pulseCount % 2 = 0) => first = 0
               /\ (t[k].pulseCount % 2 = 1) => first # 0
       /\ bits = Str(<<1,1,0,0,0,0>>)
            => samplesToSymbols(samples, samplesPerBit) = <<"+", "-", "0", "0", "0", "-">>
       /\ bits = Str(<<1,0,0,0,0>>)
            => samplesToSymbols(samples, samplesPerBit) = <<"+", "-", "0", "0", "+">>

\* the loop of encodeB8ZS is at a run of 8 zero bits in state st
AtEightZeros(st) ==
  st.i <= Len(bits) - 8 /\ Substring(bits, st.i, 8) = Zeros(8)

\* step m of a B8ZS or HDB3 encoder trace t emits an ordinary 1 pulse
OrdinaryOneStep(t, m) == t[m + 1].i - t[m].i = 1 /\ bits[t[m].i + 1] = "1"

\* the last non-zero sample before 0-based sample index idx, or dflt
RECURSIVE LastNonZeroBefore(_, _, _)
LastNonZeroBefore(ss, idx, dflt) ==
  IF idx <= 0 THEN dflt
  ELSE IF ss[idx] # 0 THEN ss[idx]
  ELSE LastNonZeroBefore(ss, idx - 1, dflt)

\* the 8 bit windows from bit position p hold the constant levels pattern[1..8]
WindowsHold(ss, spb, p, pattern) ==
  \A j \in 1..Len(pattern) : \A q \in 1..spb :
     ss[(p + j - 1) * spb + q] = pattern[j]

\* the part of C4 that does not concern the pulse after the substitution
C4_PatternAndState(t, k) ==
  LET V == t[k].lastPulse
      B == 0 - V
      p == t[k].i
  IN /\ V = LastNonZeroBefore(samples, p * samplesPerBit, 0 - amplitude)
     /\ t[k + 1].i = p + 8
     /\ Len(t[k + 1].samples) = Len(t[k].samples) + 8 * samplesPerBit
     /\ WindowsHold(samples, samplesPerBit, p, <<0, 0, 0, V, B, 0, V, B>>)
     /\ t[k + 1].lastPulse = B

\* C4 as stated: whenever encodeB8ZS finds 8 zero bits at the scan position
\* it emits exactly 0,0,0,V,B,0,V,B with V = lastPulse and B = -V, sets
\* lastPulse to B and advances by 8, and the next ordinary 1 (however far
\* away) is emitted with polarity V.
C4_Original ==
  (pc = "encoded" /\ encoding = "B8ZS") =>
    LET t == B8ZSTrace(bits, samplesPerBit, amplitude)
    IN \A k \in 1..(Len(t) - 1) :
         AtEightZeros(t[k]) =>
           /\ C4_PatternAndState(t, k)
           /\ \A m \in (k + 1)..(Len(t) - 1) :
                ( /\ OrdinaryOneStep(t, m)
                  /\ \A n \in (k + 1)..(m - 1) : ~OrdinaryOneStep(t, n) )
                => LevelAt(samples, samplesPerBit, t[m].i) = t[k].lastPulse

\* C4 amended: as C4, the last part holding for the next ordinary 1 when no
\* further substitution lies between the substitution and that 1.
C4_B8ZSSubstitution ==
  (pc = "encoded" /\ encoding = "B8ZS") =>
    LET t == B8ZSTrace(bits, samplesPerBit, amplitude)
    IN \A k \in 1..(Len(t) - 1) :
         AtEightZeros(t[k]) =>
           /\ C4_PatternAndState(t, k)
           /\ \A m \in (k + 1)..(Len(t) - 1) :
                ( /\ OrdinaryOneStep(t, m)
                  /\ \A n \in (k + 1)..(m - 1) :
                       ~OrdinaryOneStep(t, n) /\ ~AtEightZeros(t[n]) )
                => LevelAt(samples, samplesPerBit, t[m].i) = t[k].lastPulse

\* a substitution after an ordinary pulse, followed by an ordinary 1
C4_Witness ==
  /\ pc = "encoded"
  /\ encoding = "B8ZS"
  /\ bits = <<"1">> \o Zeros(8) \o <<"1">>
  /\ samplesPerBit = 2
  /\ samplesToSymbols(samples, samplesPerBit)
       = <<"+", "0", "0", "0", "+", "-", "0", "+", "-", "+">>

\* C5: decodeB8ZS emits '00000000' for a group of 8 windows exactly where
\* encodeB8ZS substituted, decodes every other window by AMI thresholding,
\* and so returns the original bits for every bit string.
C5_B8ZSRecognition ==
  (pc = "decoded" /\ encoding = "B8ZS" /\ NoiseFree) =>
    LET t == B8ZSTrace(bits, samplesPerBit, amplitude)
        d == decodeB8ZSTrace(noisy, samplesPerBit, amplitude)
    IN /\ {d[k].i \div samplesPerBit : k \in StepsAdvancing(d, 8 * samplesPerBit)}
            = {t[k].i : k \in StepsAdvancing(t, 8)}
       /\ decodedBits = bits

\* C6: decodeHDB3 takes a pulse in the 4th slot of a window for a violation
\* (and emits '0000') only if its polarity repeats that of the preceding
\* pulse, i.e. deviates from the expected alternation; an ordinary 1 after
\* three ordinary zeros is decoded as '0001'.
C6_HDB3Disambiguation ==
  (pc = "decoded" /\ encoding = "HDB3" /\ NoiseFree) =>
    LET t == HDB3Trace(bits, samplesPerBit, amplitude)
        d == decodeHDB3Trace(noisy, samplesPerBit, amplitude)
    IN /\ \A k \in StepsAdvancing(d, 4 * samplesPerBit) :
            LET fourth == d[k].i + 3 * samplesPerBit
                prior == LastNonZeroBefore(noisy, fourth, 0)
            IN prior # 0 => Sign(noisy[fourth + 1]) = Sign(prior)
       /\ \A k \in 1..(Len(t) - 1) :
            ( /\ t[k].i + 4 <= Len(bits)
              /\ Substring(bits, t[k].i, 4) = <<"0", "0", "0", "1">>
              /\ \E j \in 1..Len(d) : d[j].i = t[k].i * samplesPerBit )
            => /\ Len(decodedBits) >= t[k].i + 4
               /\ Substring(decodedBits, t[k].i, 4) = <<"0", "0", "0", "1">>

\* C7: for every scheme, bit string and samplesPerBit >= 1 the number of
\* samples returned by encode is length(bits) * samplesPerBit, substitutions
\* included.
C7_LengthInvariant ==
  pc # "idle" => Len(samples) = Len(bits) * samplesPerBit

\* an odd samplesPerBit with a half-split scheme, after encoding
C7_Witness ==
  /\ pc = "encoded"
  /\ encoding = "RZ"
  /\ samplesPerBit = 3
  /\ Len(bits) = 5
  /\ Len(samples) = 15

\* C8: findErrors returns, in strictly increasing order, exactly the indices
\* below the shorter length at which the two strings differ, and nothing at
\* or beyond the shorter length; findErrors('1010','1110') = [1] and
\* findErrors('11','11') = [].
C8_FindErrors ==
  pc = "compared" =>
    LET minLen == Min(Len(bits), Len(decodedBits))
    IN /\ \A k \in 1..(Len(errors) - 1) : errors[k] < errors[k + 1]
       /\ {errors[k] : k \in 1..Len(errors)}
            = {i \in 0..(minLen - 1) : bits[i + 1] # decodedBits[i + 1]}
       /\ (bits = Str(<<1,0,1,0>>) /\ decodedBits = Str(<<1,1,1,0>>))
            => errors = <<1>>
       /\ (bits = Str(<<1,1>>) /\ decodedBits = Str(<<1,1>>)) => errors = <<>>

\* strings of different length that differ in the last common position
C8_Witness ==
  /\ pc = "compared"
  /\ bits = Str(<<1,0,1,0>>)
  /\ decodedBits = Str(<<1,1,0>>)
  /\ errors = <<1, 2>>

\* C9: addAwgn with noiseStd <= 0 returns its argument unchanged and draws
\* no random number; with noiseStd > 0 the result has the length of the
\* argument.
C9_AddAwgn ==
  pc \in {"noised", "decoded", "compared"} =>
    /\ noiseStd <= 0 => (noisy = samples /\ randomCalls = 0)
    /\ Len(noisy) = Len(samples)

\* a negative noiseStd applied to a non-empty sample sequence
C9_Witness ==
  /\ pc = "noised"
  /\ noiseStd < 0
  /\ Len(samples) > 0
  /\ noisy = samples

\* C10: encode of the empty bit string is the empty sample sequence and
\* decode of the empty sample sequence is the empty bit string, for every
\* scheme, through the dispatcher and through the scheme's decoder.
C10_EmptyInput ==
  /\ (pc # "idle" /\ Len(bits) = 0) => samples = <<>>
  /\ (pc \in {"decoded", "compared"} /\ Len(noisy) = 0) => decodedBits = <<>>

\* the empty string decoded by a scheme's decoder called directly
C10_Witness ==
  /\ pc = "decoded"
  /\ via = "direct"
  /\ bits = <<>>
  /\ samples = <<>>
  /\ decodedBits = <<>>

\* C11: encode with samplesPerBit = 0 on a non-empty bit string either fails
\* with InvalidParameter or returns what it returns for samplesPerBit = 1.
C11_ZeroSamplesPerBit ==
  (pc \in {"encoded", "failed"} /\ samplesPerBit = 0 /\ Len(bits) > 0) =>
    \/ pc = "failed" /\ thrown = "InvalidParameter"
    \/ pc = "encoded" /\ samples = encode(bits, encoding, 1, amplitude)

\* C12: encode fails with an error, for every scheme, when the bit string
\* holds a character other than '0' and '1'.
C12_MalformedBits ==
  ( /\ pc \in {"encoded", "failed"}
    /\ \E k \in 1..Len(bits) : bits[k] \notin {"0", "1"} )
  => pc = "failed" /\ thrown # "none"

\* C13: decode finishes for every scheme, sample sequence and integer
\* samplesPerBit: the scan index of the decoder loop strictly increases in
\* every iteration.
C13_ScanIndexIncreases ==
  [][(pc = "looping" /\ pc' = "looping") => loop'.i > loop.i]_vars

\* number of '1' characters among the first p characters of b
OnesUpTo(b, p) == Cardinality({j \in 1..p : b[j] = "1"})

\* every sample of the bit window at 0-based position p has the level v
WindowIs(ss, spb, p, v) == \A j \in 1..spb : ss[p * spb + j] = v

\* sum of the symbol levels of the bit windows 0 .. p-1
RECURSIVE SymbolSum(_, _, _)
SymbolSum(ss, spb, p) ==
  IF p = 0 THEN 0 ELSE SymbolSum(ss, spb, p - 1) + LevelAt(ss, spb, p - 1)

\* C14: AMI - a '0' bit is samplesPerBit samples of 0; the k-th '1' of the
\* string is samplesPerBit samples of +amplitude for odd k and of -amplitude
\* for even k; the running sum of the symbol levels is always 0 or +amplitude.
C14_AMIRule ==
  (pc = "encoded" /\ encoding = "AMI") =>
    /\ \A p \in 0..(Len(bits) - 1) :
         WindowIs(samples, samplesPerBit, p,
                  IF bits[p + 1] = "0" THEN 0
                  ELSE IF OnesUpTo(bits, p + 1) % 2 = 1 THEN amplitude
                  ELSE 0 - amplitude)
    /\ \A p \in 0..Len(bits) :
         SymbolSum(samples, samplesPerBit, p) \in {0, amplitude}

\* an AMI encoding of a string with a '0' and at least three '1's
C14_Witness ==
  /\ pc = "encoded"
  /\ encoding = "AMI"
  /\ samplesPerBit >= 2
  /\ amplitude = 2
  /\ OnesUpTo(bits, Len(bits)) >= 3
  /\ \E p \in 1..Len(bits) : bits[p] = "0"
  /\ Len(samples) = Len(bits) * samplesPerBit

\* the maximal runs of '0' of b, each as <<0-based start, length>>
MaximalZeroRuns(b) ==
  {r \in (0..(Len(b) - 1)) \X (1..Len(b)) :
     /\ r[1] + r[2] <= Len(b)
     /\ \A j \in (r[1] + 1)..(r[1] + r[2]) : b[j] = "0"
     /\ (r[1] = 0 \/ b[r[1]] # "0")
     /\ (r[1] + r[2] = Len(b) \/ b[r[1] + r[2] + 1] # "0")}

\* the substitutions are exactly the q-th blocks of n bits of every maximal
\* zero run, q < L div n, taken from the start of the run; the L mod n bits
\* after them are zero windows.  t is the encoder's loop trace.
GreedySubstitution(t, n) ==
  /\ {t[m].i : m \in StepsAdvancing(t, n)} =
       UNION {{r[1] + n * q : q \in 0..((r[2] \div n) - 1)} :
                r \in MaximalZeroRuns(bits)}
  /\ \A r \in MaximalZeroRuns(bits) :
       \A p \in (r[1] + n * (r[2] \div n))..(r[1] + r[2] - 1) :
         WindowIs(samples, samplesPerBit, p, 0)

\* C15: greedy non-overlapping substitution - a maximal run of L zeros gives
\* exactly floor(L / k) substitutions, back to back from the start of the
\* run, followed by L mod k ordinary zeros (k = 8 for B8ZS, 4 for HDB3); a
\* run shorter than k gives none.
C15_GreedySubstitution ==
  /\ (pc = "encoded" /\ encoding = "B8ZS") =>
       GreedySubstitution(B8ZSTrace(bits, samplesPerBit, amplitude), 8)
  /\ (pc = "encoded" /\ encoding = "HDB3") =>
       GreedySubstitution(HDB3Trace(bits, samplesPerBit, amplitude), 4)

\* HDB3 on a run of 7 zeros: one substitution, then 3 ordinary zeros
C15_Witness ==
  /\ pc = "encoded"
  /\ encoding = "HDB3"
  /\ bits = Str(<<1, 0, 0, 0, 0, 0, 0, 0>>)
  /\ StepsAdvancing(HDB3Trace(bits, samplesPerBit, amplitude), 4) = {2}
  /\ Len(samples) = 8 * samplesPerBit

\* B8ZS on a run of 9 zeros closing the string: one substitution, one
\* ordinary zero
C15_WitnessB8ZS ==
  /\ pc = "encoded"
  /\ encoding = "B8ZS"
  /\ bits = <<"1">> \o Zeros(9)
  /\ StepsAdvancing(B8ZSTrace(bits, samplesPerBit, amplitude), 8) = {2}

\* the decoder paired with the scheme id e, applied to ss
OwnDecoder(e, ss, spb, amp) ==
  CASE e = "NRZ" -> decodeNRZ(ss, spb, amp)
    [] e = "RZ" -> decodeRZ(ss, spb, amp)
    [] e = "NRZI" -> decodeNRZI(ss, spb, amp)
    [] e = "Manchester" -> decodeManchester(ss, spb, amp)
    [] e = "DiffManchester" -> decodeDiffManchester(ss, spb, amp)
    [] e = "AMI" -> decodeAMI(ss, spb, amp)
    [] e = "B8ZS" -> decodeB8ZS(ss, spb, amp)
    [] e = "HDB3" -> decodeHDB3(ss, spb, amp)

\* C16: decode dispatches each of the eight scheme ids to its own decoder;
\* B8ZS and HDB3 are not handled by the NRZ default branch.
C16_SchemePairing ==
  (pc = "decoded" /\ Len(samples) > 0) =>
    decodedBits = OwnDecoder(encoding, samples, samplesPerBit, 1)

\* C17: NRZI decoding inverts NRZI encoding at every position, the first
\* included: the decoded bit at position p is '1' exactly when the encoder
\* flipped the level at bit p (against +amplitude before bit 0).
C17_NRZIInverse ==
  (pc = "decoded" /\ encoding = "NRZI" /\ NoiseFree) =>
    /\ Len(decodedBits) = Len(bits)
    /\ \A p \in 0..(Len(bits) - 1) :
         (decodedBits[p + 1] = "1") <=>
           (LevelAt(samples, samplesPerBit, p) #
              (IF p = 0 THEN amplitude ELSE LevelAt(samples, samplesPerBit, p - 1)))

\* C18: Differential Manchester decoding inverts the encoder at every
\* position, the first included, for every even samplesPerBit >= 4: the
\* decoded bit at position p is '0' exactly when the encoder made a
\* transition at the start of bit p (against +amplitude for p = 0).
C18_DiffManchesterInverse ==
  ( /\ pc = "decoded"
    /\ encoding = "DiffManchester"
    /\ NoiseFree
    /\ samplesPerBit % 2 = 0
    /\ samplesPerBit >= 4 )
  => /\ Len(decodedBits) = Len(bits)
     /\ \A p \in 0..(Len(bits) - 1) :
          (decodedBits[p + 1] = "0") <=>
            (samples[p * samplesPerBit + 1] #
               (IF p = 0 THEN amplitude ELSE samples[p * samplesPerBit]))

\* C19: Differential Manchester encoder - for samplesPerBit >= 2 the second
\* half of every bit is the negation of its first half, and the first half of
\* bit p differs from the second half of bit p - 1 (from +amplitude for
\* p = 0) if and only if bits[p] = '0'.
C19_DiffManchesterTransitions ==
  (pc = "encoded" /\ encoding = "DiffManchester" /\ samplesPerBit >= 2) =>
    \A p \in 0..(Len(bits) - 1) :
      LET half == Floor(samplesPerBit, 2)
          first == samples[p * samplesPerBit + 1]
          before == IF p = 0 THEN amplitude ELSE samples[p * samplesPerBit]
      IN /\ first # 0
         /\ \A j \in 1..half : samples[p * samplesPerBit + j] = first
         /\ \A j \in (half + 1)..samplesPerBit :
              samples[p * samplesPerBit + j] = 0 - first
         /\ (first # before) <=> (bits[p + 1] = "0")

\* a Differential Manchester encoding with an odd samplesPerBit of a string
\* that opens with a '1' and holds '0's and '1's after it
C19_Witness ==
  /\ pc = "encoded"
  /\ encoding = "DiffManchester"
  /\ samplesPerBit = 3
  /\ bits = Str(<<1, 0, 0, 1, 1, 0>>)
  /\ samples[1] = amplitude
  /\ samples[4] = amplitude
  /\ Len(samples) = 18

\* C20: for every scheme and samplesPerBit >= 2 every index passed to
\* getSampleValue is an integer, so every decision value a decoder compares
\* is a number; for Differential Manchester the value compared in the first
\* iteration is the sign of the sample read at half / 2.
C20_DecisionReads ==
  (pc = "looping" /\ samplesPerBit >= 2 /\ encoding = "DiffManchester") =>
    loop.prev # NaN

\* C21: HDB3 encoder state after a substitution - after every substitution,
\* whichever pattern was emitted, pulseCount is 0, and the next ordinary 1
\* is emitted with the polarity opposite to the substitution's V pulse.
C21_HDB3StateAfterSubstitution ==
  (pc = "encoded" /\ encoding = "HDB3") =>
    LET t == HDB3Trace(bits, samplesPerBit, amplitude)
    IN \A k \in StepsAdvancing(t, 4) :
         /\ t[k + 1].pulseCount = 0
         /\ \A m \in (k + 1)..(Len(t) - 1) :
              ( /\ OrdinaryOneStep(t, m)
                /\ \A j \in (k + 1)..(m - 1) :
                     ~OrdinaryOneStep(t, j) /\ j \notin StepsAdvancing(t, 4) )
              => LevelAt(samples, samplesPerBit, t[m].i) =
                   0 - LevelAt(samples, samplesPerBit, t[k].i + 3)

\* C22: HDB3 violation pulse - in every substitution that has a preceding
\* non-zero symbol in the output, V has the polarity of the nearest preceding
\* non-zero symbol (the B pulse when the pattern is B,0,0,V).
C22_HDB3Violation ==
  (pc = "encoded" /\ encoding = "HDB3") =>
    LET t == HDB3Trace(bits, samplesPerBit, amplitude)
    IN \A k \in StepsAdvancing(t, 4) :
         LET vIndex == (t[k].i + 3) * samplesPerBit
             prior == LastNonZeroBefore(samples, vIndex, 0)
         IN prior # 0 => Sign(samples[vIndex + 1]) = Sign(prior)

\* C23: B8ZS keeps DC balance - after every emitted symbol of encodeB8ZS the
\* running sum of the symbol levels lies between -2 and +2 amplitudes, and
\* each substituted 8-symbol pattern by itself sums to 0.
C23_B8ZSBalance ==
  (pc = "encoded" /\ encoding = "B8ZS") =>
    LET t == B8ZSTrace(bits, samplesPerBit, amplitude)
    IN /\ \A p \in 0..Len(bits) :
            /\ SymbolSum(samples, samplesPerBit, p) >= 0 - 2 * amplitude
            /\ SymbolSum(samples, samplesPerBit, p) <= 2 * amplitude
       /\ \A k \in StepsAdvancing(t, 8) :
            SymbolSum(samples, samplesPerBit, t[k].i + 8) =
              SymbolSum(samples, samplesPerBit, t[k].i)

\* b holds a run of n consecutive '0' characters
HasZeroRun(b, n) ==
  \E r \in MaximalZeroRuns(b) : r[2] >= n

\* C24: substitution-free equivalence with AMI - for a bit string without a
\* run of 8 zeros encodeB8ZS returns the samples of encodeAMI, and for a bit
\* string without a run of 4 zeros encodeHDB3 returns the samples of
\* encodeAMI, same samplesPerBit and amplitude.
C24_AMIEquivalence ==
  /\ (pc = "encoded" /\ encoding = "B8ZS" /\ ~HasZeroRun(bits, 8)) =>
       samples = encodeAMI(bits, samplesPerBit, amplitude)
  /\ (pc = "encoded" /\ encoding = "HDB3" /\ ~HasZeroRun(bits, 4)) =>
       samples = encodeAMI(bits, samplesPerBit, amplitude)

\* a B8ZS encoding of a string with pulses around a run of 7 zeros
C24_Witness ==
  /\ pc = "encoded"
  /\ encoding = "B8ZS"
  /\ bits = <<"1">> \o Zeros(7)
  /\ ~HasZeroRun(bits, 8)
  /\ samples[1] = amplitude
  /\ Len(samples) = 8 * samplesPerBit

\* ss holds n consecutive bit windows at level 0
ZeroSymbolRun(ss, spb, n) ==
  \E p \in 0..((Len(ss) \div spb) - n) :
    \A j \in 0..(n - 1) : LevelAt(ss, spb, p + j) = 0

\* C25: zero-run suppression - the symbols emitted by encodeHDB3 never hold 4
\* consecutive zero-level symbols and those emitted by encodeB8ZS never hold
\* 8, also across the boundary between a substitution pattern and the
\* ordinary symbols around it.
C25_ZeroRunSuppression ==
  /\ (pc = "encoded" /\ encoding = "HDB3") =>
       ~ZeroSymbolRun(samples, samplesPerBit, 4)
  /\ (pc = "encoded" /\ encoding = "B8ZS") =>
       ~ZeroSymbolRun(samples, samplesPerBit, 8)

\* HDB3 on 7 zeros and a 1: a substitution, then 3 ordinary zero symbols
C25_Witness ==
  /\ pc = "encoded"
  /\ encoding = "HDB3"
  /\ bits = Zeros(7) \o <<"1">>
  /\ samplesToSymbols(samples, samplesPerBit)[4] # "0"
  /\ ZeroSymbolRun(samples, samplesPerBit, 3)

\* C26: for NRZ, RZ, Manchester and AMI the noise-free round trip returns
\* the original bits for every samplesPerBit >= 2, odd values included, and
\* every positive amplitude; the decision offsets floor(spb/4), floor(spb/2)
\* and floor(3*spb/4) fall in the intended half of the bit window.
C26_OddSamplesRoundTrip ==
  ( /\ pc = "decoded"
    /\ encoding \in {"NRZ", "RZ", "Manchester", "AMI"}
    /\ NoiseFree
    /\ samplesPerBit >= 2 )
  => /\ decodedBits = bits
     /\ Floor(samplesPerBit, 4) < Floor(samplesPerBit, 2)
     /\ Floor(3 * samplesPerBit, 4) >= Floor(samplesPerBit, 2)
     /\ Floor(3 * samplesPerBit, 4) < samplesPerBit
     /\ Floor(samplesPerBit, 2) < samplesPerBit

\* a Manchester round trip with samplesPerBit = 3
C26_Witness ==
  /\ pc = "decoded"
  /\ encoding = "Manchester"
  /\ NoiseFree
  /\ samplesPerBit = 3
  /\ bits = Str(<<1, 0, 0, 1, 1>>)
  /\ decodedBits = bits

\* C27: decoded length - for every scheme, every samplesPerBit >= 1 and
\* every sample sequence of length n, decode returns exactly
\* ceil(n / samplesPerBit) bits, pattern matches of B8ZS and HDB3 included.
C27_DecodedLength ==
  (pc = "decoded" /\ samplesPerBit >= 1) =>
    Len(decodedBits) = (Len(noisy) + samplesPerBit - 1) \div samplesPerBit

\* decodeHDB3 matched the pattern 0,0,0,pulse at one sample per bit
C27_Witness ==
  /\ pc = "decoded"
  /\ encoding = "HDB3"
  /\ samplesPerBit = 1
  /\ noisy = <<0, 0, 0, 1>>
  /\ decodedBits = Zeros(4)

\* C28: input sanitisation - after any sequence of UI actions (typing any
\* text, a preset, Randomize, Reset) the bits state handed to encode holds
\* only the characters '0' and '1'.
C28_InputSanitised ==
  \A k \in 1..Len(bits) : bits[k] \in {"0", "1"}

\* the text "x" was typed and the bits state is the text without it
C28_Witness ==
  /\ pc = "settled"
  /\ typed = <<"x">>
  /\ bits = <<>>

\* C29: displayed results track the inputs - once the auto-encode effect has
\* run, samples = encode(bits, ...), decodedBits is the decoding of those
\* samples and errors = findErrors(bits, decodedBits), the state where bits
\* was cleared to the empty string included (all three empty).
C29_ResultsTrackInputs ==
  (pc = "settled" /\ noiseStd = 0) =>
    /\ samples = encode(bits, encoding, samplesPerBit, amplitude)
    /\ decodedBits = decodeSixCases(samples, encoding, samplesPerBit, amplitude)
    /\ errors = findErrors(bits, decodedBits)

====
